---- MODULE Spec2Model ----
(***************************************************************************)
(* The event loop of rust-p2p-example (src/main.rs): one tokio::select!    *)
(* over the stdin line stream, the internal response channel and the       *)
(* swarm, followed by one dispatch of the selected event.                  *)
(*                                                                         *)
(* main.rs is the only file of the repository at hand.  The handlers it    *)
(* calls (handlers.rs) and the types it uses (models.rs, consts.rs) are    *)
(* modelled from the specification (sections 4.4, 4.5, 6, 7).  Input lines *)
(* are sequences of one-character strings so that the prefix tests of the  *)
(* command match are computed, not assumed.                                *)
(***************************************************************************)
EXTENDS Integers, Sequences, FiniteSets, TLC

\* Bound of the model: user lines typed plus network events received.
MaxEvents == 3

----------------------------------------------------------------------------
\* Identities and the single topic (consts.rs: PEER_ID, TOPIC).

LocalPeerId == "me"

OtherPeer == "p1"

TOPIC == "recipes"

----------------------------------------------------------------------------
\* Input lines, character by character.

L_ls_p == <<"l","s"," ","p">>

L_ls_r == <<"l","s"," ","r">>

L_ls_r_local == <<"l","s"," ","r"," ","l","o","c","a","l">>

L_create == <<"c","r","e","a","t","e"," ","r"," ","a","|","b","|","c">>

L_create_noname == <<"c","r","e","a","t","e"," ","r"," ","|","b","|","c">>

L_publish == <<"p","u","b","l","i","s","h"," ","r"," ","0">>

L_ls_rx == <<"l","s"," ","r","x">>

L_ls_px == <<"l","s"," ","p","x">>

L_quit == <<"q","u","i","t">>

\* The lines a user may type in the model.
Lines ==
  { L_ls_p, L_ls_r, L_ls_r_local, L_create, L_create_noname, L_publish,
    L_ls_rx, L_ls_px, L_quit }

\* str::starts_with
StartsWith(s, p) == Len(s) >= Len(p) /\ SubSeq(s, 1, Len(p)) = p

P_create_r == <<"c","r","e","a","t","e"," ","r">>

P_publish_r == <<"p","u","b","l","i","s","h"," ","r">>

P_ls_r == <<"l","s"," ","r">>

\* A plausible slip: "ls p" matched by prefix like the other three arms.
ClassifyLsPByPrefix(line) ==
  IF StartsWith(line, L_ls_p) THEN "list_peers"
  ELSE IF StartsWith(line, P_create_r) THEN "create"
  ELSE IF StartsWith(line, P_publish_r) THEN "publish"
  ELSE IF StartsWith(line, P_ls_r) THEN "list_recipes"
  ELSE "unknown"

\* The arm of `match line.as_str()` that a line takes, in match order.
Classify(line) ==
  IF line = L_ls_p THEN "list_peers"
  ELSE IF StartsWith(line, P_create_r) THEN "create"
  ELSE IF StartsWith(line, P_publish_r) THEN "publish"
  ELSE IF StartsWith(line, P_ls_r) THEN "list_recipes"
  ELSE "unknown"

----------------------------------------------------------------------------
\* Parsing of the command arguments (handlers.rs, from the command table).

\* str::strip_prefix: <<rest>> when the line starts with the prefix, else <<>>.
StripPrefix(s, p) ==
  IF StartsWith(s, p) THEN <<SubSeq(s, Len(p) + 1, Len(s))>> ELSE <<>>

RECURSIVE SplitAcc(_, _, _, _)
SplitAcc(s, c, cur, acc) ==
  IF s = <<>> THEN Append(acc, cur)
  ELSE IF Head(s) = c THEN SplitAcc(Tail(s), c, <<>>, Append(acc, cur))
  ELSE SplitAcc(Tail(s), c, Append(cur, Head(s)), acc)

\* str::split
Split(s, c) == SplitAcc(s, c, <<>>, <<>>)

DigitChars == {"0", "1", "2", "3", "4", "5", "6", "7", "8", "9"}

DigitVal(c) ==
  CASE c = "0" -> 0 [] c = "1" -> 1 [] c = "2" -> 2 [] c = "3" -> 3
    [] c = "4" -> 4 [] c = "5" -> 5 [] c = "6" -> 6 [] c = "7" -> 7
    [] c = "8" -> 8 [] c = "9" -> 9

RECURSIVE ParseDigits(_, _)
ParseDigits(s, acc) ==
  IF s = <<>> THEN acc
  ELSE ParseDigits(Tail(s), acc * 10 + DigitVal(Head(s)))

\* A recipe id as decimal digits; -1 when the text is no number.
ParseId(s) ==
  IF s # <<>> /\ \A i \in 1..Len(s) : s[i] \in DigitChars
  THEN ParseDigits(s, 0)
  ELSE -1

----------------------------------------------------------------------------
\* Recipes, requests and responses (models.rs, from sections 3 and 6).

NewRecipe(id, name, ingredients, instructions) ==
  [id |-> id, name |-> name, ingredients |-> ingredients,
   instructions |-> instructions, published |-> FALSE]

\* The recipe a remote peer may send; its id collides with the first local id.
RemoteRecipe ==
  [id |-> 0, name |-> <<"s">>, ingredients |-> <<"w">>,
   instructions |-> <<"h">>, published |-> TRUE]

ListModes == {"ALL", "LOCAL"}

SyncRequest(mode, requester) ==
  [kind |-> "SyncRequest", mode |-> mode, requester |-> requester]

SyncResponse(receiver, mode, rs) ==
  [kind |-> "SyncResponse", receiver |-> receiver, mode |-> mode, recipes |-> rs]

\* The wire form of a recipe: the flag travels as `public`.
EncodeRecipe(r) ==
  [id |-> r.id, name |-> r.name, ingredients |-> r.ingredients,
   instructions |-> r.instructions, public |-> r.published]

DecodeRecipe(w) ==
  [id |-> w.id, name |-> w.name, ingredients |-> w.ingredients,
   instructions |-> w.instructions, published |-> w.public]

\* serde_json::to_string of a request or a response: the tagged wire record.
Encode(m) ==
  IF m.kind = "SyncRequest"
  THEN [type |-> IF m.mode = "ALL" THEN "ListAllRequest" ELSE "ListLocalRequest",
        requester |-> m.requester]
  ELSE [type |-> IF m.mode = "ALL" THEN "ListAllResponse" ELSE "ListLocalResponse",
        receiver |-> m.receiver,
        data |-> [i \in 1..Len(m.recipes) |-> EncodeRecipe(m.recipes[i])]]

\* A payload no decoder accepts.
Garbage == [type |-> "garbage"]

\* Decoding of an inbound payload; kind "DecodeError" when it is malformed.
Decode(w) ==
  IF w.type \in {"ListAllRequest", "ListLocalRequest"}
  THEN SyncRequest(IF w.type = "ListAllRequest" THEN "ALL" ELSE "LOCAL", w.requester)
  ELSE IF w.type \in {"ListAllResponse", "ListLocalResponse"}
  THEN SyncResponse(w.receiver,
                    IF w.type = "ListAllResponse" THEN "ALL" ELSE "LOCAL",
                    [i \in 1..Len(w.data) |-> DecodeRecipe(w.data[i])])
  ELSE [kind |-> "DecodeError"]

\* The events the swarm can hand to handle_swarm_event.
SwarmEvents ==
  { [kind |-> "Message", source |-> OtherPeer, data |-> Encode(SyncRequest(m, OtherPeer))]
      : m \in ListModes }
  \cup { [kind |-> "Message", source |-> OtherPeer,
          data |-> Encode(SyncResponse(r, "ALL", <<RemoteRecipe>>))]
           : r \in {LocalPeerId, OtherPeer} }
  \cup { [kind |-> "Message", source |-> OtherPeer, data |-> Garbage] }
  \cup { [kind |-> "Discovered", peer |-> OtherPeer],
         [kind |-> "Expired", peer |-> OtherPeer] }

----------------------------------------------------------------------------
\* RecipeStore (section 4.4): a local partition and a remote partition.

Ids(rs) == { rs[i].id : i \in 1..Len(rs) }

RECURSIVE MergeInto(_, _)
\* Merge received recipes into the remote partition, one entry per id.
MergeInto(rem, rs) ==
  IF rs = <<>> THEN rem
  ELSE MergeInto(IF Head(rs).id \in Ids(rem) THEN rem ELSE Append(rem, Head(rs)),
                 Tail(rs))

\* A slip: ALL is the two partitions one after the other.
ListRecipesConcat(mode, loc, rem) ==
  IF mode = "LOCAL" THEN loc ELSE loc \o rem

\* list(mode): LOCAL is the authored set; ALL adds the remote recipes whose id
\* the authored set does not already hold.
ListRecipes(mode, loc, rem) ==
  IF mode = "LOCAL" THEN loc
  ELSE loc \o SelectSeq(rem, LAMBDA r : r.id \notin Ids(loc))

----------------------------------------------------------------------------
\* State.

\* The topics subscribed before the loop starts: flood_sub.subscribe(TOPIC).
Subscribed == {TOPIC}

VARIABLES
  pc,          \* "select": at tokio::select!; "dispatch": at `if let Some(event)`
  running,     \* "running" | "panicked"
  panicMsg,    \* the message of the expect() that failed, "" while running
  evt,         \* the Option<EventType> of the current iteration
  stdinBuf,    \* lines typed and not yet read by next_line()
  stdinState,  \* "open" | "eof" | "err"
  replyQ,      \* the unbounded response channel
  published,   \* the calls of flood_sub.publish, in order
  peers,       \* the peers known to the swarm
  recipes,     \* RecipeStore, local partition
  remote,      \* RecipeStore, remote partition
  console,     \* the lines shown to the user (prints and log lines)
  handled,     \* history: the events processed, in order, with the handler run
  iter,        \* history: iterations of the loop completed
  nEvents,     \* history: lines typed plus swarm events received
  typed,       \* history: the lines typed, in order
  senders      \* the live senders of the response channel

vars ==
  <<pc, running, panicMsg, evt, stdinBuf, stdinState, replyQ, published, peers,
    recipes, remote, console, handled, iter, nEvents, typed, senders>>

None == [tag |-> "None"]

Input(line) == [tag |-> "Input", line |-> line]

Response(resp) == [tag |-> "Response", resp |-> resp]

Out(level, msg, data) == [level |-> level, msg |-> msg, data |-> data]

\* A record of the history: the source, the event, the handler and its outcome.
Handled(src, ev, handler, err) ==
  [src |-> src, ev |-> ev, handler |-> handler, err |-> err]

Init ==
  /\ pc = "select"
  /\ running = "running"
  /\ panicMsg = ""
  /\ evt = None
  /\ stdinBuf = <<>>
  /\ stdinState = "open"
  /\ replyQ = <<>>
  /\ published = <<>>
  /\ peers = {}
  /\ recipes = <<>>
  /\ remote = <<>>
  /\ console = <<>>
  /\ handled = <<>>
  /\ iter = 0
  /\ nEvents = 0
  /\ typed = <<>>
  /\ senders = 1

----------------------------------------------------------------------------
\* The environment: the user at the terminal.  The loop reads the stream only
\* at the select, so arrivals are taken there.

TypeLine ==
  /\ running = "running" /\ pc = "select"
  /\ stdinState = "open"
  /\ nEvents < MaxEvents
  /\ \E l \in Lines :
       /\ stdinBuf' = Append(stdinBuf, l)
       /\ typed' = Append(typed, l)
  /\ nEvents' = nEvents + 1
  /\ UNCHANGED <<senders, pc, running, panicMsg, evt, stdinState, replyQ, published,
                 peers, recipes, remote, console, handled, iter>>

\* End of input: the stream is closed (Ctrl-D, closed pipe).
CloseStdin ==
  /\ running = "running" /\ pc = "select"
  /\ stdinState = "open"
  /\ stdinState' = "eof"
  /\ UNCHANGED <<typed, senders, pc, running, panicMsg, evt, stdinBuf, replyQ, published,
                 peers, recipes, remote, console, handled, iter, nEvents>>

\* An I/O failure of the stream.
StdinFail ==
  /\ running = "running" /\ pc = "select"
  /\ stdinState = "open"
  /\ stdinState' = "err"
  /\ UNCHANGED <<typed, senders, pc, running, panicMsg, evt, stdinBuf, replyQ, published,
                 peers, recipes, remote, console, handled, iter, nEvents>>

----------------------------------------------------------------------------
\* The select (main.rs lines 64-70).

\* A failed expect(): the task panics and the loop is gone.
Panic(msg) ==
  /\ running' = "panicked"
  /\ panicMsg' = msg
  /\ UNCHANGED <<typed, senders, pc, evt, stdinBuf, stdinState, replyQ, published, peers,
                 recipes, remote, console, handled, iter, nEvents>>

\* A slip: the newest line is read first.
SelectInputNewest ==
  /\ running = "running" /\ pc = "select"
  /\ stdinBuf # <<>>
  /\ evt' = Input(stdinBuf[Len(stdinBuf)])
  /\ stdinBuf' = SubSeq(stdinBuf, 1, Len(stdinBuf) - 1)
  /\ pc' = "dispatch"
  /\ UNCHANGED <<typed, senders, running, panicMsg, stdinState, replyQ, published, peers,
                 recipes, remote, console, handled, iter, nEvents>>

\* Branch 1, next_line() = Ok(Some(line)).
SelectInput ==
  /\ running = "running" /\ pc = "select"
  /\ stdinBuf # <<>>
  /\ evt' = Input(Head(stdinBuf))
  /\ stdinBuf' = Tail(stdinBuf)
  /\ pc' = "dispatch"
  /\ UNCHANGED <<typed, senders, running, panicMsg, stdinState, replyQ, published, peers,
                 recipes, remote, console, handled, iter, nEvents>>

\* Branch 1, next_line() = Ok(None): the inner expect fails.
SelectInputEof ==
  /\ running = "running" /\ pc = "select"
  /\ stdinBuf = <<>> /\ stdinState = "eof"
  /\ Panic("can read line from stdin")

\* Branch 1, next_line() = Err(e): the outer expect fails.
SelectInputErr ==
  /\ running = "running" /\ pc = "select"
  /\ stdinBuf = <<>> /\ stdinState = "err"
  /\ Panic("can get line")

\* A slip: the response is read but left on the channel.
SelectResponsePeek ==
  /\ running = "running" /\ pc = "select"
  /\ replyQ # <<>>
  /\ evt' = Response(Head(replyQ))
  /\ pc' = "dispatch"
  /\ UNCHANGED <<typed, senders, running, panicMsg, stdinBuf, stdinState, replyQ, published, peers,
                 recipes, remote, console, handled, iter, nEvents>>

\* Branch 2, recv() = None: the channel is closed, which is when no sender is
\* left and the queue is empty; `.expect("response exists")` would then panic.
RecvYieldsClosed ==
  /\ running = "running" /\ pc = "select"
  /\ replyQ = <<>>
  /\ senders = 0

\* Branch 2, recv() = Some(response).  response_sender lives as long as main,
\* so recv() never yields None.
SelectResponse ==
  /\ running = "running" /\ pc = "select"
  /\ replyQ # <<>>
  /\ evt' = Response(Head(replyQ))
  /\ replyQ' = Tail(replyQ)
  /\ pc' = "dispatch"
  /\ UNCHANGED <<typed, senders, running, panicMsg, stdinBuf, stdinState, published, peers,
                 recipes, remote, console, handled, iter, nEvents>>

----------------------------------------------------------------------------
\* handle_swarm_event (handlers.rs; sections 4.5 and 7).

\* A slip: the response is merged whoever its receiver is.
HandleSwarmEventNoReceiverCheck(ev) ==
  LET m == IF ev.kind = "Message" THEN Decode(ev.data) ELSE [kind |-> ev.kind] IN
  /\ replyQ' = IF m.kind = "SyncRequest"
               THEN Append(replyQ, SyncResponse(m.requester, m.mode,
                                                ListRecipes(m.mode, recipes, remote)))
               ELSE replyQ
  /\ remote' = IF m.kind = "SyncResponse" THEN MergeInto(remote, m.recipes) ELSE remote
  /\ console' = IF m.kind = "SyncResponse"
                THEN Append(console, Out("info", "recipes received", m.recipes))
                ELSE IF m.kind = "DecodeError"
                THEN Append(console, Out("warn", "decode error", <<>>))
                ELSE console
  /\ peers' = IF ev.kind = "Discovered" /\ ev.peer # LocalPeerId THEN peers \cup {ev.peer}
              ELSE IF ev.kind = "Expired" THEN peers \ {ev.peer}
              ELSE peers
  /\ handled' = Append(handled,
                  Handled("swarm", ev, "handle_swarm_event",
                          IF m.kind = "DecodeError" THEN "decode" ELSE "none"))
  /\ UNCHANGED <<recipes, published>>

\* One swarm event, handled to completion.
HandleSwarmEvent(ev) ==
  LET m == IF ev.kind = "Message" THEN Decode(ev.data) ELSE [kind |-> ev.kind]
      mine == m.kind = "SyncResponse" /\ m.receiver = LocalPeerId IN
  /\ replyQ' = IF m.kind = "SyncRequest"
               THEN Append(replyQ, SyncResponse(m.requester, m.mode,
                                                ListRecipes(m.mode, recipes, remote)))
               ELSE replyQ
  /\ remote' = IF mine THEN MergeInto(remote, m.recipes) ELSE remote
  /\ console' = IF mine
                THEN Append(console, Out("info", "recipes received", m.recipes))
                ELSE IF m.kind = "DecodeError"
                THEN Append(console, Out("warn", "decode error", <<>>))
                ELSE console
  /\ peers' = IF ev.kind = "Discovered" /\ ev.peer # LocalPeerId THEN peers \cup {ev.peer}
              ELSE IF ev.kind = "Expired" THEN peers \ {ev.peer}
              ELSE peers
  /\ handled' = Append(handled,
                  Handled("swarm", ev, "handle_swarm_event",
                          IF m.kind = "DecodeError" THEN "decode" ELSE "none"))
  /\ UNCHANGED <<recipes, published>>

\* A slip: the swarm branch hands a pending response on to the dispatch, so the
\* iteration that handled a swarm event handles a second event.
SelectSwarmYieldsResponse ==
  /\ running = "running" /\ pc = "select"
  /\ nEvents < MaxEvents
  /\ \E ev \in SwarmEvents : HandleSwarmEvent(ev)
  /\ nEvents' = nEvents + 1
  /\ evt' = IF replyQ # <<>> THEN Response(Head(replyQ)) ELSE None
  /\ pc' = "dispatch"
  /\ UNCHANGED <<typed, senders, running, panicMsg, stdinBuf, stdinState, iter>>

\* A slip: the swarm branch returns the response it caused, so the dispatch of
\* the same iteration publishes it.
SelectSwarmReturnsResponse ==
  /\ running = "running" /\ pc = "select"
  /\ nEvents < MaxEvents
  /\ \E ev \in SwarmEvents : HandleSwarmEvent(ev)
  /\ nEvents' = nEvents + 1
  /\ evt' = IF replyQ' # replyQ THEN Response(replyQ'[Len(replyQ')]) ELSE None
  /\ pc' = "dispatch"
  /\ UNCHANGED <<typed, senders, running, panicMsg, stdinBuf, stdinState, iter>>

\* A slip: the handler is given response_sender itself, not a clone, and drops
\* it when it returns.
SelectSwarmMovesSender ==
  /\ running = "running" /\ pc = "select"
  /\ nEvents < MaxEvents
  /\ senders >= 1
  /\ \E ev \in SwarmEvents : HandleSwarmEvent(ev)
  /\ nEvents' = nEvents + 1
  /\ senders' = senders - 1
  /\ evt' = None
  /\ pc' = "dispatch"
  /\ UNCHANGED <<typed, running, panicMsg, stdinBuf, stdinState, iter>>

\* Branch 3: handle_swarm_event completes and the branch yields None.  The
\* handler is given response_sender.clone() and the clone is dropped with the
\* completed future; main keeps response_sender itself.
SelectSwarm ==
  /\ running = "running" /\ pc = "select"
  /\ nEvents < MaxEvents
  /\ \E ev \in SwarmEvents : HandleSwarmEvent(ev)
  /\ nEvents' = nEvents + 1
  /\ senders' = (senders + 1) - 1
  /\ evt' = None
  /\ pc' = "dispatch"
  /\ UNCHANGED <<typed, running, panicMsg, stdinBuf, stdinState, iter>>

----------------------------------------------------------------------------
\* The dispatch (main.rs lines 72-89).

\* The end of an iteration: back to the select.
LoopBack == pc' = "select" /\ iter' = iter + 1

\* flood_sub.publish(TOPIC, bytes): fire and forget.  The call returns nothing;
\* `ok` is whether the transport took the message for the connected peers.
FloodsubPublish(bytes, ok) ==
  published' = Append(published,
                 [topic |-> TOPIC, data |-> bytes, to |-> IF ok THEN peers ELSE {}])

\* `if let Some(event) = evt` with evt = None: nothing to dispatch.
DispatchNone ==
  /\ running = "running" /\ pc = "dispatch"
  /\ evt = None
  /\ LoopBack
  /\ UNCHANGED <<typed, senders, running, panicMsg, evt, stdinBuf, stdinState, replyQ, published,
                 peers, recipes, remote, console, handled, nEvents>>

\* A slip: the outcome of the send is unwrapped, so a failed send panics.
DispatchResponseUnwrap ==
  /\ running = "running" /\ pc = "dispatch"
  /\ evt.tag = "Response"
  /\ \E ok \in BOOLEAN :
       /\ FloodsubPublish(Encode(evt.resp), ok)
       /\ handled' = Append(handled,
                       Handled("response", evt.resp, "publish",
                               IF ok THEN "none" ELSE "transport"))
       /\ running' = IF ok THEN running ELSE "panicked"
       /\ panicMsg' = IF ok THEN panicMsg ELSE "can publish"
  /\ LoopBack
  /\ UNCHANGED <<typed, senders, evt, stdinBuf, stdinState, replyQ, peers, recipes, remote,
                 console, nEvents>>

\* A slip: with no peer connected the response is consumed without a publish.
DispatchResponseSkipsUnconnected ==
  /\ running = "running" /\ pc = "dispatch"
  /\ evt.tag = "Response"
  /\ \E ok \in BOOLEAN :
       /\ IF peers = {} THEN published' = published
          ELSE FloodsubPublish(Encode(evt.resp), ok)
       /\ handled' = Append(handled,
                       Handled("response", evt.resp, "publish",
                               IF ok THEN "none" ELSE "transport"))
  /\ LoopBack
  /\ UNCHANGED <<typed, senders, running, panicMsg, evt, stdinBuf, stdinState, replyQ, peers,
                 recipes, remote, console, nEvents>>

\* EventType::Response(resp): encode and publish on the topic.
DispatchResponse ==
  /\ running = "running" /\ pc = "dispatch"
  /\ evt.tag = "Response"
  /\ \E ok \in BOOLEAN :
       /\ FloodsubPublish(Encode(evt.resp), ok)
       /\ handled' = Append(handled,
                       Handled("response", evt.resp, "publish",
                               IF ok THEN "none" ELSE "transport"))
  /\ LoopBack
  /\ UNCHANGED <<typed, senders, running, panicMsg, evt, stdinBuf, stdinState, replyQ, peers,
                 recipes, remote, console, nEvents>>

\* The elements of a set as a sequence, for printing.
SeqOf(S) ==
  CHOOSE q \in [1..Cardinality(S) -> S] : { q[i] : i \in 1..Cardinality(S) } = S

\* handle_list_peers (handlers.rs; command table): print the known peers.
HandleListPeers ==
  /\ console' = Append(console, Out("info", "peers", SeqOf(peers)))
  /\ handled' = Append(handled, Handled("input", evt.line, "handle_list_peers", "none"))
  /\ UNCHANGED <<recipes, published>>

\* handle_create_recipe (handlers.rs; sections 4.4, 6, 7): a local unpublished
\* recipe from `create r <name>|<ingredients>|<instructions>`; an empty name or a
\* malformed argument is a ValidationError shown to the user.
HandleCreateRecipe(cmd) ==
  LET rest == StripPrefix(cmd, Append(P_create_r, " "))
      f == IF rest = <<>> THEN <<>> ELSE Split(rest[1], "|")
      valid == Len(f) = 3 /\ f[1] # <<>> IN
  /\ recipes' = IF valid
                THEN Append(recipes, NewRecipe(Len(recipes), f[1], f[2], f[3]))
                ELSE recipes
  /\ console' = IF valid
                THEN Append(console, Out("info", "created", f[1]))
                ELSE Append(console, Out("error", "validation", cmd))
  /\ handled' = Append(handled,
                  Handled("input", cmd, "handle_create_recipe",
                          IF valid THEN "none" ELSE "validation"))
  /\ UNCHANGED published

\* handle_publish_recipe (handlers.rs; sections 4.4, 6): flip the flag of the
\* recipe `publish r <id>` names; on a published recipe a no-op.  The handler is
\* given the command alone, so it sends nothing.
HandlePublishRecipe(cmd) ==
  LET rest == StripPrefix(cmd, Append(P_publish_r, " "))
      id == IF rest = <<>> THEN -1 ELSE ParseId(rest[1])
      valid == id \in Ids(recipes) IN
  /\ recipes' = [i \in 1..Len(recipes) |->
                   IF recipes[i].id = id
                   THEN [recipes[i] EXCEPT !.published = TRUE]
                   ELSE recipes[i]]
  /\ console' = IF valid
                THEN Append(console, Out("info", "published", <<id>>))
                ELSE Append(console, Out("error", "validation", cmd))
  /\ handled' = Append(handled,
                  Handled("input", cmd, "handle_publish_recipe",
                          IF valid THEN "none" ELSE "validation"))
  /\ UNCHANGED published

\* A slip: `ls r` lists the authored recipes only.
HandleListRecipesLocalOnly(cmd) ==
  LET mode == IF cmd = L_ls_r THEN "ALL"
              ELSE IF cmd = L_ls_r_local THEN "LOCAL" ELSE "none" IN
  /\ console' = IF mode = "none"
                THEN Append(console, Out("error", "validation", cmd))
                ELSE Append(console,
                            Out("info", "recipes", ListRecipes("LOCAL", recipes, remote)))
  /\ \E ok \in BOOLEAN :
       /\ IF mode = "ALL"
          THEN FloodsubPublish(Encode(SyncRequest("ALL", LocalPeerId)), ok)
          ELSE ok /\ UNCHANGED published
       /\ handled' = Append(handled,
                       Handled("input", cmd, "handle_list_recipes",
                               IF mode = "none" THEN "validation"
                               ELSE IF ok THEN "none" ELSE "transport"))
  /\ UNCHANGED recipes

\* handle_list_recipes (handlers.rs; sections 4.5, 6, 8): `ls r` prints every
\* known recipe and broadcasts a ListAllRequest; `ls r local` prints the authored
\* ones; anything else after the prefix is a malformed command.
HandleListRecipes(cmd) ==
  LET mode == IF cmd = L_ls_r THEN "ALL"
              ELSE IF cmd = L_ls_r_local THEN "LOCAL" ELSE "none" IN
  /\ console' = IF mode = "none"
                THEN Append(console, Out("error", "validation", cmd))
                ELSE Append(console,
                            Out("info", "recipes", ListRecipes(mode, recipes, remote)))
  /\ \E ok \in BOOLEAN :
       /\ IF mode = "ALL"
          THEN FloodsubPublish(Encode(SyncRequest("ALL", LocalPeerId)), ok)
          ELSE ok /\ UNCHANGED published
       /\ handled' = Append(handled,
                       Handled("input", cmd, "handle_list_recipes",
                               IF mode = "none" THEN "validation"
                               ELSE IF ok THEN "none" ELSE "transport"))
  /\ UNCHANGED recipes

\* What every arm of the input match leaves alone, and the loop back.
AfterInput ==
  /\ LoopBack
  /\ UNCHANGED <<typed, senders, running, panicMsg, evt, stdinBuf, stdinState, replyQ, peers,
                 remote, nEvents>>

\* "ls p" => handle_list_peers(&mut swarm)
DispatchListPeers ==
  /\ running = "running" /\ pc = "dispatch"
  /\ evt.tag = "Input" /\ Classify(evt.line) = "list_peers"
  /\ HandleListPeers
  /\ AfterInput

\* cmd if cmd.starts_with("create r") => handle_create_recipe(cmd)
DispatchCreate ==
  /\ running = "running" /\ pc = "dispatch"
  /\ evt.tag = "Input" /\ Classify(evt.line) = "create"
  /\ HandleCreateRecipe(evt.line)
  /\ AfterInput

\* cmd if cmd.starts_with("publish r") => handle_publish_recipe(cmd)
DispatchPublish ==
  /\ running = "running" /\ pc = "dispatch"
  /\ evt.tag = "Input" /\ Classify(evt.line) = "publish"
  /\ HandlePublishRecipe(evt.line)
  /\ AfterInput

\* cmd if cmd.starts_with("ls r") => handle_list_recipes(cmd, &mut swarm)
DispatchListRecipes ==
  /\ running = "running" /\ pc = "dispatch"
  /\ evt.tag = "Input" /\ Classify(evt.line) = "list_recipes"
  /\ HandleListRecipes(evt.line)
  /\ AfterInput

\* A slip: the fallback arm gives up instead of logging.
DispatchUnknownPanics ==
  /\ running = "running" /\ pc = "dispatch"
  /\ evt.tag = "Input" /\ Classify(evt.line) = "unknown"
  /\ Panic("unknown command")

\* _ => error!("unknown command: {:?}", line)
DispatchUnknown ==
  /\ running = "running" /\ pc = "dispatch"
  /\ evt.tag = "Input" /\ Classify(evt.line) = "unknown"
  /\ console' = Append(console, Out("error", "unknown command", evt.line))
  /\ handled' = Append(handled, Handled("input", evt.line, "unknown", "unknown"))
  /\ UNCHANGED <<recipes, published>>
  /\ AfterInput

----------------------------------------------------------------------------

Next ==
  \/ TypeLine
  \/ CloseStdin
  \/ StdinFail
  \/ SelectInput
  \/ SelectInputEof
  \/ SelectInputErr
  \/ SelectResponse
  \/ SelectSwarm
  \/ DispatchNone
  \/ DispatchResponse
  \/ DispatchListPeers
  \/ DispatchCreate
  \/ DispatchPublish
  \/ DispatchListRecipes
  \/ DispatchUnknown

Spec == Init /\ [][Next]_vars

----------------------------------------------------------------------------
\* Properties.

Last(q) == q[Len(q)]

\* The lines the match sends to its fallback arm.
NoCommandPrefix(line) ==
  /\ line # L_ls_p
  /\ ~StartsWith(line, P_create_r)
  /\ ~StartsWith(line, P_publish_r)
  /\ ~StartsWith(line, P_ls_r)

\* C4: every iteration of the loop takes exactly one event from one of the
\* three sources and processes it to completion before the next iteration
\* starts: at the select the events processed are as many as the iterations
\* completed, and within an iteration the one event selected is either already
\* handled (the swarm branch, which yields None) or the one awaiting dispatch.
C4_OneEventPerIteration ==
  /\ pc = "select" => Len(handled) = iter
  /\ pc = "dispatch" /\ evt = None =>
       Len(handled) = iter + 1 /\ Last(handled).src = "swarm"
  /\ pc = "dispatch" /\ evt # None => Len(handled) = iter

\* C4 witness: three iterations done, one event of each source processed.
C4_Witness ==
  /\ pc = "select" /\ iter >= 3 /\ running = "running"
  /\ \E i, j, k \in 1..Len(handled) :
       /\ handled[i].src = "input"
       /\ handled[j].src = "swarm"
       /\ handled[k].src = "response"

\* C5: an unknown command line is reported as an error on the console and
\* leaves the loop running at its select, with nothing published and no peer,
\* recipe or reply-queue state changed.
C5_UnknownCommandKeepsLoop ==
  [][(running = "running" /\ pc = "dispatch" /\ evt.tag = "Input"
        /\ NoCommandPrefix(evt.line))
      => /\ running' = "running"
         /\ pc' = "select"
         /\ console' = Append(console, Out("error", "unknown command", evt.line))
         /\ UNCHANGED <<published, peers, recipes, remote, replyQ>>]_vars

\* C5 witness: an unknown command was reported and a later event was processed.
C5_Witness ==
  /\ running = "running"
  /\ \E i \in 1..Len(handled) :
       /\ i < Len(handled)
       /\ handled[i].src = "input" /\ handled[i].ev = L_quit
       /\ handled[i].handler = "unknown"
  /\ \E c \in 1..Len(console) :
       console[c].msg = "unknown command" /\ console[c].data = L_quit

\* The command surface as documented: `ls p`, `ls r`, `ls r local`,
\* `create r <name>|<ingredients>|<instructions>`, `publish r <id>`.
Documented(line) ==
  \/ line \in {L_ls_p, L_ls_r, L_ls_r_local}
  \/ /\ StartsWith(line, Append(P_create_r, " "))
     /\ Len(Split(StripPrefix(line, Append(P_create_r, " "))[1], "|")) = 3
  \/ /\ StartsWith(line, Append(P_publish_r, " "))
     /\ StripPrefix(line, Append(P_publish_r, " "))[1] # <<>>

InputsHandled == { i \in 1..Len(handled) : handled[i].src = "input" }

\* C6 as stated: a line that is not one of the documented commands is reported
\* as an unknown command and reaches no list, create or publish handler.
C6_UndocumentedIsUnknown ==
  \A i \in InputsHandled :
    ~Documented(handled[i].ev) => handled[i].handler = "unknown"

\* C6 amended: a line other than `ls p` that begins with none of `create r`,
\* `publish r`, `ls r` is reported as an unknown command and reaches no handler;
\* `ls p` reaches the peer listing and a line beginning with one of the three
\* prefixes reaches the create, publish or recipe-listing handler, whatever
\* follows the prefix.
C6_ClassifiedByPrefix ==
  \A i \in InputsHandled :
    LET line == handled[i].ev IN
    handled[i].handler =
      IF line = L_ls_p THEN "handle_list_peers"
      ELSE IF StartsWith(line, P_create_r) THEN "handle_create_recipe"
      ELSE IF StartsWith(line, P_publish_r) THEN "handle_publish_recipe"
      ELSE IF StartsWith(line, P_ls_r) THEN "handle_list_recipes"
      ELSE "unknown"

\* C6 witness: `ls rx` reached the recipe listing and `ls px` the fallback.
C6_Witness ==
  /\ \E i \in InputsHandled :
       handled[i].ev = L_ls_rx /\ handled[i].handler = "handle_list_recipes"
  /\ \E i \in InputsHandled :
       handled[i].ev = L_ls_px /\ handled[i].handler = "unknown"

\* C7: the loop is ended by nothing but the input stream: whenever it has
\* stopped, the stream was at end-of-input or had failed and the failed expect
\* is one of the two on next_line(); validation errors, failed sends, decode
\* errors and failures while publishing a queued response leave it running.
C7_OnlyStdinEndsLoop ==
  running # "running" =>
    /\ pc = "select"
    /\ stdinBuf = <<>>
    /\ \/ stdinState = "err" /\ panicMsg = "can get line"
       \/ stdinState = "eof" /\ panicMsg = "can read line from stdin"

\* C7 witness: a validation error, a decode error and a failed publish of a
\* queued response have all happened and the loop runs.
C7_Witness ==
  /\ running = "running" /\ pc = "select"
  /\ \E i, j, k \in 1..Len(handled) :
       /\ handled[i].err = "validation"
       /\ handled[j].err = "decode"
       /\ handled[k].src = "response" /\ handled[k].err = "transport"

\* C8 as stated: once end-of-input has been reached the loop stops without a
\* panic (and whatever is left on the reply queue is dropped).
C8_EofStopsWithoutPanic ==
  stdinState = "eof" => running # "panicked"

\* A swarm event carrying a SyncResponse addressed to another peer.
ForeignResponse(h) ==
  /\ h.src = "swarm"
  /\ h.ev.kind = "Message"
  /\ Decode(h.ev.data).kind = "SyncResponse"
  /\ Decode(h.ev.data).receiver # LocalPeerId

\* C9: the step that handles a SyncResponse whose receiver is not the local
\* PeerId changes neither partition of the RecipeStore nor the console.
C9_ForeignResponseDiscarded ==
  [][(Len(handled') = Len(handled) + 1 /\ ForeignResponse(Last(handled')))
      => UNCHANGED <<recipes, remote, console>>]_vars

\* C9 witness: a response for another peer was handled, carrying a recipe, and
\* the store holds nothing of it.
C9_Witness ==
  /\ \E i \in 1..Len(handled) :
       /\ ForeignResponse(handled[i])
       /\ Decode(handled[i].ev.data).recipes # <<>>
  /\ remote = <<>> /\ console = <<>>
  /\ running = "running"


\* A swarm event carrying a SyncRequest.
IsRequest(h) ==
  /\ h.src = "swarm"
  /\ h.ev.kind = "Message"
  /\ Decode(h.ev.data).kind = "SyncRequest"

ResponseTypes == {"ListAllResponse", "ListLocalResponse"}

\* The (requester, mode) of the requests received, in order of receipt.
RequestsReceived ==
  LET rq == SelectSeq(handled, IsRequest) IN
  [i \in 1..Len(rq) |->
     <<Decode(rq[i].ev.data).requester, Decode(rq[i].ev.data).mode>>]

\* The (receiver, mode) of the responses published, dequeued and queued, in
\* that order.
ResponsesIssued ==
  LET pub == SelectSeq(published, LAMBDA x : x.data.type \in ResponseTypes)
      cur == IF pc = "dispatch" /\ evt.tag = "Response" THEN <<evt.resp>> ELSE <<>> IN
  [i \in 1..Len(pub) |-> <<Decode(pub[i].data).receiver, Decode(pub[i].data).mode>>]
  \o [i \in 1..Len(cur) |-> <<cur[i].receiver, cur[i].mode>>]
  \o [i \in 1..Len(replyQ) |-> <<replyQ[i].receiver, replyQ[i].mode>>]

\* Every response published or awaiting publication answers a received request,
\* one response per request, to its requester and in its mode.
C10_ResponsesAnswerRequests == ResponsesIssued = RequestsReceived

\* Handling a SyncRequest puts on the reply queue a SyncResponse to the
\* requester, in the requested mode, filled from the RecipeStore, and publishes
\* nothing in that iteration.
C10_RequestEnqueuesResponse ==
  (Len(handled') = Len(handled) + 1 /\ IsRequest(Last(handled')))
  => LET m == Decode(Last(handled').ev.data)
         rs == IF m.mode = "LOCAL" THEN recipes
               ELSE recipes \o SelectSeq(remote, LAMBDA r : r.id \notin Ids(recipes)) IN
     /\ replyQ' = Append(replyQ, SyncResponse(m.requester, m.mode, rs))
     /\ UNCHANGED published
     /\ evt' = None

\* A SyncResponse is published only by the dispatch of a dequeued response, on
\* the topic, as that response's encoding.
C10_PublishIsOfDequeued ==
  (published' # published /\ Last(published').data.type \in ResponseTypes)
  => /\ pc = "dispatch" /\ evt.tag = "Response"
     /\ published' = Append(published, Last(published'))
     /\ Last(published').topic = TOPIC
     /\ Decode(Last(published').data) = evt.resp

----------------------------------------------------------------------------

\* The create commands that succeeded, in order.
Created ==
  SelectSeq(handled, LAMBDA h : h.handler = "handle_create_recipe" /\ h.err = "none")

\* The responses addressed to this node that were handled.
ResponsesForMe ==
  SelectSeq(handled, LAMBDA h : /\ h.src = "swarm"
                                /\ h.ev.kind = "Message"
                                /\ Decode(h.ev.data).kind = "SyncResponse"
                                /\ Decode(h.ev.data).receiver = LocalPeerId)

\* C12: list(LOCAL) holds exactly the recipes created by create commands, in
\* order, and never the recipe merged from a SyncResponse; list(ALL) holds every
\* local recipe, the id of every merged remote recipe, and no id twice, also
\* when the merged recipe has the id of a local one.
C12_ModeCorrectness ==
  LET loc == ListRecipes("LOCAL", recipes, remote)
      all == ListRecipes("ALL", recipes, remote) IN
  /\ Len(loc) = Len(Created)
  /\ \A i \in 1..Len(loc) :
       /\ loc[i].id = i - 1
       /\ loc[i].name = Split(SubSeq(Created[i].ev, Len(P_create_r) + 2,
                                     Len(Created[i].ev)), "|")[1]
       /\ loc[i] # RemoteRecipe
  /\ \A i \in 1..Len(recipes) : \E j \in 1..Len(all) : all[j] = recipes[i]
  /\ ResponsesForMe # <<>> => RemoteRecipe.id \in Ids(all)
  /\ Ids(all) = Ids(recipes) \cup Ids(remote)
  /\ \A i, j \in 1..Len(all) : all[i].id = all[j].id => i = j
  /\ \A i \in 1..Len(remote) :
       remote[i].id \notin Ids(recipes) => \E j \in 1..Len(all) : all[j] = remote[i]

\* C12 witness: a local recipe, published, and a merged remote recipe of the
\* same id; the full listing shows the id once.
C12_Witness ==
  /\ Len(recipes) = 1 /\ recipes[1].published
  /\ remote = <<RemoteRecipe>>
  /\ recipes[1].id = RemoteRecipe.id
  /\ Len(ListRecipes("ALL", recipes, remote)) = 1


----------------------------------------------------------------------------

\* This node has received gossip: a message of the topic reached its handler.
GossipReceived ==
  \E i \in 1..Len(handled) : handled[i].src = "swarm" /\ handled[i].ev.kind = "Message"

\* `ls r` sent its ListAllRequest and a ListAllResponse for this node, carrying
\* the remote recipe, was handled afterwards.
RoundTripDone ==
  \E i, j \in 1..Len(handled) :
    /\ i < j
    /\ handled[i].src = "input" /\ handled[i].ev = L_ls_r /\ handled[i].err = "none"
    /\ handled[j].src = "swarm" /\ handled[j].ev.kind = "Message"
    /\ handled[j].ev.data = Encode(SyncResponse(LocalPeerId, "ALL", <<RemoteRecipe>>))

Shows(list, r) == \E k \in 1..Len(list) : list[k] = r

\* After the round trip the full listing of a node that authored nothing
\* includes the remote recipe.
C15_ListedAfterRoundTrip ==
  RoundTripDone /\ recipes = <<>> => Shows(ListRecipes("ALL", recipes, remote), RemoteRecipe)

\* What `ls r` prints on a node that authored nothing: the empty list while no
\* gossip was received, a list with the remote recipe once the round trip is done.
C15_LsRPrints ==
  (running = "running" /\ pc = "dispatch" /\ evt.tag = "Input" /\ evt.line = L_ls_r
     /\ recipes = <<>>)
  => /\ Len(console') = Len(console) + 1
     /\ Last(console').msg = "recipes"
     /\ ~GossipReceived => Last(console').data = <<>>
     /\ RoundTripDone => Shows(Last(console').data, RemoteRecipe)

\* C15: on a subscribed, connected node B that authored nothing, `ls r` shows
\* an empty list as long as B received no gossip; once B's ListAllRequest went
\* out and the ListAllResponse carrying A's recipe r1 was handled, B's ALL
\* listing, and what `ls r` prints, includes r1.
C15_SyncScenario ==
  /\ []C15_ListedAfterRoundTrip
  /\ [][C15_LsRPrints]_vars

\* C15 witness: B, connected to A, printed an empty list and sent its request
\* to A; the response was handled and B's full listing is r1.
C15_Witness ==
  /\ RoundTripDone /\ recipes = <<>>
  /\ \E i \in 1..Len(published) :
       published[i].to = {OtherPeer} /\ published[i].data.type = "ListAllRequest"
  /\ \E a \in 1..Len(console) : console[a].msg = "recipes" /\ console[a].data = <<>>
  /\ ListRecipes("ALL", recipes, remote) = <<RemoteRecipe>>


----------------------------------------------------------------------------

\* The events of `src` processed so far, in order of processing.
Processed(src) ==
  LET hs == SelectSeq(handled, LAMBDA h : h.src = src) IN
  [i \in 1..Len(hs) |-> hs[i].ev]

\* The input lines processed, in dispatch and still buffered, in that order.
InputOrder ==
  Processed("input")
  \o (IF pc = "dispatch" /\ evt.tag = "Input" THEN <<evt.line>> ELSE <<>>)
  \o stdinBuf

\* The responses published, in dispatch and still queued, in that order.
ResponseOrder ==
  Processed("response")
  \o (IF pc = "dispatch" /\ evt.tag = "Response" THEN <<evt.resp>> ELSE <<>>)
  \o replyQ

\* The responses published on the topic, decoded, in order of publication.
PublishedResponses ==
  LET pub == SelectSeq(published, LAMBDA x : x.data.type \in ResponseTypes) IN
  [i \in 1..Len(pub) |-> Decode(pub[i].data)]

\* Lines are processed in the order typed, none skipped and none twice; the
\* responses published are the responses processed, in the same order.
C16_InputFifo ==
  /\ InputOrder = typed
  /\ PublishedResponses = Processed("response")

\* The order of responses only grows at its end, by the response enqueued:
\* dequeueing and publishing never reorder, drop or repeat one.
C16_ResponseFifo ==
  \/ ResponseOrder' = ResponseOrder
  \/ /\ replyQ' # <<>>
     /\ ResponseOrder' = Append(ResponseOrder, Last(replyQ'))

\* C16: the events of one source are processed in their order of arrival
\* (lines as typed, responses as enqueued), each exactly once while the loop
\* runs; across sources no order is fixed.
C16_FifoPerSource ==
  /\ []C16_InputFifo
  /\ [][C16_ResponseFifo]_vars

\* C16 witness: one line was processed; a second line and a response are both
\* ready at the select, and either may be taken next.
C16_Witness ==
  /\ running = "running" /\ pc = "select"
  /\ Len(Processed("input")) = 1
  /\ Len(stdinBuf) = 1 /\ stdinBuf[1] # Processed("input")[1]
  /\ Len(replyQ) = 1
  /\ ENABLED SelectInput /\ ENABLED SelectResponse


----------------------------------------------------------------------------
\* Fair scheduling.  tokio::select! polls its branches in random order, so a
\* branch that is ready again and again is eventually taken; a dispatch, once
\* reached, runs.

Fairness ==
  /\ SF_vars(SelectResponse)
  /\ SF_vars(SelectInput)
  /\ WF_vars(DispatchNone)
  /\ WF_vars(DispatchResponse)
  /\ WF_vars(DispatchListPeers \/ DispatchCreate \/ DispatchPublish
               \/ DispatchListRecipes \/ DispatchUnknown)

\* The inputs of the fair specification: one line for each arm of the match,
\* and of the swarm events a request and a discovery.
FairLines == {L_ls_p, L_create, L_publish, L_ls_r, L_quit}

FairSwarmEvents ==
  { [kind |-> "Message", source |-> OtherPeer,
     data |-> Encode(SyncRequest("ALL", OtherPeer))],
    [kind |-> "Discovered", peer |-> OtherPeer] }

FairInputs ==
  /\ \A i \in 1..Len(typed) : typed[i] \in FairLines
  /\ \A i \in 1..Len(handled) :
       handled[i].src = "swarm" => handled[i].ev \in FairSwarmEvents

\* A line of FairLines is typed.
FairTypeLine == TypeLine /\ FairInputs'

\* A swarm event of FairSwarmEvents is handled.
FairSelectSwarm == SelectSwarm /\ FairInputs'

FairNext ==
  \/ FairTypeLine
  \/ CloseStdin
  \/ StdinFail
  \/ SelectInput
  \/ SelectInputEof
  \/ SelectInputErr
  \/ SelectResponse
  \/ FairSelectSwarm
  \/ DispatchNone
  \/ DispatchResponse
  \/ DispatchListPeers
  \/ DispatchCreate
  \/ DispatchPublish
  \/ DispatchListRecipes
  \/ DispatchUnknown

FairSpec == Init /\ [][FairNext]_vars /\ Fairness

\* The responses put on the reply queue so far.
NumEnqueued == Len(SelectSeq(handled, IsRequest))

\* C18 as stated, in the form a finite run refutes: every response placed on
\* the reply queue gets published, so none is left on the queue (or dequeued and
\* unpublished) when the loop has ended.
C18_NoResponseLeftBehind ==
  running # "running" => Len(PublishedResponses) = NumEnqueued


\* Every response is published at most once and none is lost while the loop
\* runs: published, in dispatch and queued add up to those enqueued.
C18_ExactlyOnce ==
  Len(PublishedResponses)
    + (IF pc = "dispatch" /\ evt.tag = "Response" THEN 1 ELSE 0)
    + Len(replyQ) = NumEnqueued

\* C18 amended: under fair selection the n-th response placed on the reply
\* queue is eventually published, exactly once, unless the loop stops first
\* (the input stream ended or failed), in which case the responses still
\* pending are dropped; and a dispatch always completes, waiting for no
\* acknowledgement of a send.
C18_ReplyLiveness ==
  /\ \A n \in 1..MaxEvents :
       (NumEnqueued >= n) ~> (Len(PublishedResponses) >= n \/ running # "running")
  /\ []C18_ExactlyOnce
  /\ (pc = "dispatch") ~> (pc = "select")

\* C18 witness: two responses were enqueued and both were published while a
\* line was typed and processed, the loop still running.
C18_Witness ==
  /\ running = "running" /\ pc = "select"
  /\ NumEnqueued = 2 /\ Len(PublishedResponses) = 2
  /\ Len(Processed("input")) = 1


----------------------------------------------------------------------------

\* The positions in the history of the events of `src` that satisfy P.
Positions(P(_)) == { i \in 1..Len(handled) : P(handled[i]) }

IsResponseRecord(h) == h.src = "response"

\* The position of the n-th element of a set of positions.
Nth(S, n) == CHOOSE i \in S : Cardinality({ j \in S : j <= i }) = n

\* Every publish is on the subscribed topic, and the n-th response is processed
\* at a later position of the history, hence in a later iteration, than the
\* n-th request.
C19_PublishedLater ==
  /\ \A i \in 1..Len(published) : published[i].topic \in Subscribed
  /\ \A n \in 1..Cardinality(Positions(IsResponseRecord)) :
       /\ n <= Cardinality(Positions(IsRequest))
       /\ Nth(Positions(IsRequest), n) < Nth(Positions(IsResponseRecord), n)

\* The step that handles a swarm event publishes nothing and yields None; the
\* dispatch of an iteration that already handled its event does nothing; and a
\* publish by the dispatch site is of the dequeued response, encoded.
C19_SwarmBranchYieldsNone ==
  /\ (Len(handled') = Len(handled) + 1 /\ Last(handled').src = "swarm")
       => published' = published /\ evt' = None /\ pc' = "dispatch"
  /\ (pc = "dispatch" /\ Len(handled) = iter + 1 /\ running = "running")
       => UNCHANGED <<published, replyQ, handled, console, recipes, remote, peers>>
  /\ (pc = "dispatch" /\ evt.tag = "Response" /\ published' # published)
       => /\ published' = Append(published, Last(published'))
          /\ Last(published').data = Encode(evt.resp)
          /\ Last(published').topic \in Subscribed
          /\ Last(handled') = Handled("response", evt.resp, "publish", Last(handled').err)

\* C19: the iteration that handles a network or discovery event publishes
\* nothing: the swarm branch yields None, a response it caused is only queued
\* and is published in a strictly later iteration; the dispatch site publishes
\* only dequeued responses, on the one topic subscribed before the loop.
C19_NoPublishInSwarmIteration ==
  /\ []C19_PublishedLater
  /\ [][C19_SwarmBranchYieldsNone]_vars

\* C19 witness: a request was handled in one iteration and its response was
\* published two iterations later, after a line was processed in between.
C19_Witness ==
  /\ Len(handled) = 3 /\ iter = 3
  /\ IsRequest(handled[1])
  /\ handled[2].src = "input"
  /\ handled[3].src = "response"
  /\ Len(published) = 1 /\ published[1].topic = TOPIC

----------------------------------------------------------------------------

\* The loop waits in the select with nothing to read and nothing queued.
Idle == running = "running" /\ pc = "select" /\ stdinBuf = <<>> /\ replyQ = <<>>

\* C20: the reply queue is never closed while the loop runs: main keeps its own
\* sender, so recv() never yields None and the loop never stops because of the
\* reply queue; while the input stream is open the loop is running and has an
\* enabled next step.
C20_ReplyQueueNeverCloses ==
  /\ running = "running" => senders >= 1
  /\ ~RecvYieldsClosed
  /\ panicMsg # "response exists"
  /\ stdinState = "open" => running = "running" /\ ENABLED Next
  /\ (running = "running" /\ pc = "dispatch") =>
       ENABLED (DispatchNone \/ DispatchResponse \/ DispatchListPeers
                  \/ DispatchCreate \/ DispatchPublish \/ DispatchListRecipes
                  \/ DispatchUnknown)
  /\ (running = "running" /\ pc = "select" /\ replyQ # <<>>) => ENABLED SelectResponse

\* C20 witness: the input stream is open and the loop idles in the select after
\* a swarm event was handled with a clone of the sender and the response it
\* queued was received and published.
C20_Witness ==
  /\ Idle /\ stdinState = "open"
  /\ senders = 1
  /\ Len(handled) = 2
  /\ IsRequest(handled[1])
  /\ handled[2].src = "response"

====
